---- MODULE Spec2Model ----
(***************************************************************************)
(* Model of SpacebioEngine/src/app/app.py: load_metadata, highlight_text,  *)
(* search_experiments and the part of render_home that drives them.        *)
(*                                                                         *)
(* Text is a sequence of one-character strings.  A DataFrame is a record   *)
(* [cols, rows]: the set of column names and the sequence of rows, each    *)
(* row a record over the columns plus idx, its index label.  A float score *)
(* is a fixed-point number of thousandths.                                 *)
(***************************************************************************)
EXTENDS Integers, Sequences, FiniteSets, TLC

VARIABLES file, df, fault, warning, args, stage, scored, results, shown,
          text, hquery, highlighted

vars == <<file, df, fault, warning, args, stage, scored, results, shown,
          text, hquery, highlighted>>

(***************************************************************************)
(* Bounds of the model.                                                    *)
(***************************************************************************)
MaxRows == 2
MaxTopN == 2
MaxFileRows == 1
MaxTextLen == 3
MaxQueryLen == 4

(***************************************************************************)
(* Values.                                                                 *)
(***************************************************************************)
\* Every string of the program is a sequence of characters; None and the
\* null cell (NaN) are one-element sequences no string equals.
None == <<"<None>">>
NaN == <<"<NaN>">>
All == <<"A","l","l">>
NoFault == "none"

Range(s) == {s[i] : i \in DOMAIN s}

EmptyDataFrame == [cols |-> {}, rows |-> <<>>]

IsEmpty(d) == d.cols = {} \/ d.rows = <<>>

(***************************************************************************)
(* Characters and words.                                                   *)
(***************************************************************************)
LowerCase == {"a","b","c","d","e","f","g","h","i","j","k","l","m",
              "n","o","p","q","r","s","t","u","v","w","x","y","z"}
UpperOf == [c \in {"a","b","p"} |->
              CASE c = "a" -> "A" [] c = "b" -> "B" [] c = "p" -> "P"]
UpperCase == Range(UpperOf)
WordChars == LowerCase \cup UpperCase \cup {"0","1","2","_"}
WhiteSpace == {" "}

Lower(c) == IF \E l \in DOMAIN UpperOf : UpperOf[l] = c
            THEN CHOOSE l \in DOMAIN UpperOf : UpperOf[l] = c
            ELSE c

LowerText(s) == [i \in DOMAIN s |-> Lower(s[i])]

IsWord(c) == c \in WordChars

Sp == <<" ">>
w_bone == <<"b","o","n","e">>
w_density == <<"d","e","n","s","i","t","y">>
w_plant == <<"p","l","a","n","t">>
w_Plant == <<"P","l","a","n","t">>
w_the == <<"t","h","e">>
w_in == <<"i","n">>
w_after == <<"a","f","t","e","r">>
w_a == <<"a">>

StopWords == {w_the, w_in, w_after, w_a,
              <<"o","f">>, <<"a","n","d">>, <<"t","o">>, <<"i","s">>}

(***************************************************************************)
(* TfidfVectorizer(stop_words="english"): lower-casing, the token pattern  *)
(* \b\w\w+\b (maximal runs of two or more word characters), stop-word      *)
(* removal, smoothed idf, L2-normalised rows.                              *)
(***************************************************************************)
RECURSIVE WordRuns(_, _, _)
WordRuns(s, cur, acc) ==
    IF s = <<>>
    THEN IF cur = <<>> THEN acc ELSE Append(acc, cur)
    ELSE IF IsWord(Head(s))
         THEN WordRuns(Tail(s), Append(cur, Head(s)), acc)
         ELSE WordRuns(Tail(s), <<>>,
                       IF cur = <<>> THEN acc ELSE Append(acc, cur))

IsToken(run) == Len(run) >= 2

NotStopWord(tok) == tok \notin StopWords

Tokenize(doc) == SelectSeq(WordRuns(LowerText(doc), <<>>, <<>>), IsToken)

Analyze(doc) == SelectSeq(Tokenize(doc), NotStopWord)

TermCount(tok, toks) == Cardinality({i \in DOMAIN toks : toks[i] = tok})

RECURSIVE SetSum(_, _)
SetSum(f, S) ==
    IF S = {} THEN 0
    ELSE LET x == CHOOSE y \in S : TRUE
         IN  f[x] + SetSum(f, S \ {x})

\* The integer square root by bisection: lo * lo <= x < hi * hi throughout.
RECURSIVE Bisect(_, _, _)
Bisect(x, lo, hi) ==
    IF hi - lo <= 1 THEN lo
    ELSE LET mid == (lo + hi) \div 2
         IN  IF mid * mid <= x THEN Bisect(x, mid, hi) ELSE Bisect(x, lo, mid)

ISqrt(x) == Bisect(x, 0, 40000)

\* 100 * ln(k), k = 1..16
Ln100 == <<0, 69, 110, 139, 161, 179, 195, 208, 220, 230, 240, 248,
           256, 264, 271, 277>>

\* 100 * (ln((1 + n) / (1 + dfreq)) + 1)
Idf100(n, dfreq) == Ln100[1 + n] - Ln100[1 + dfreq] + 100

Vocabulary(analyzed) == UNION {Range(analyzed[i]) : i \in DOMAIN analyzed}

\* One row of fit_transform: tf * idf, divided by its L2 norm (thousandths).
TfidfRow(toks, vocab, idf) ==
    LET w == [t \in vocab |-> TermCount(t, toks) * idf[t]]
        norm == ISqrt(SetSum([t \in vocab |-> w[t] * w[t]], vocab))
    IN  [t \in vocab |-> IF norm = 0 THEN 0 ELSE (w[t] * 1000) \div norm]

\* The similarity taken to the first row instead of the query's row.
CosineSimilarityFirstRow(docs, q) ==
    LET all == docs \o <<q>>
        analyzed == [i \in DOMAIN all |-> Analyze(all[i])]
        vocab == Vocabulary(analyzed)
        n == Len(all)
        idf == [t \in vocab |->
                  Idf100(n, Cardinality({i \in DOMAIN all : t \in Range(analyzed[i])}))]
        rows == [i \in DOMAIN all |-> TfidfRow(analyzed[i], vocab, idf)]
    IN  [i \in DOMAIN docs |->
            SetSum([t \in vocab |-> rows[1][t] * rows[i][t]], vocab) \div 1000]

\* cosine_similarity(doc_vectors[-1], doc_vectors[:-1]).flatten()
CosineSimilarity(docs, q) ==
    LET all == docs \o <<q>>
        analyzed == [i \in DOMAIN all |-> Analyze(all[i])]
        vocab == Vocabulary(analyzed)
        n == Len(all)
        idf == [t \in vocab |->
                  Idf100(n, Cardinality({i \in DOMAIN all : t \in Range(analyzed[i])}))]
        rows == [i \in DOMAIN all |-> TfidfRow(analyzed[i], vocab, idf)]
    IN  [i \in DOMAIN docs |->
            SetSum([t \in vocab |-> rows[n][t] * rows[i][t]], vocab) \div 1000]

\* The vectorizer never raising.
EmptyVocabularyNever(docs, q) == FALSE

\* fit_transform raises ValueError("empty vocabulary; ...")
EmptyVocabulary(docs, q) ==
    \A i \in DOMAIN (docs \o <<q>>) : Analyze((docs \o <<q>>)[i]) = <<>>

(***************************************************************************)
(* load_metadata(file_path)                                                *)
(***************************************************************************)
CharOrganism == "Characteristics[Organism]"

NoSummary == <<"N","o"," ","s","u","m","m","a","r","y"," ",
               "p","r","o","v","i","d","e","d",".">>
UnknownAssay == <<"U","n","k","n","o","w","n"," ","A","s","s","a","y">>
UnknownOrganism == <<"U","n","k","n","o","w","n"," ",
                     "O","r","g","a","n","i","s","m">>

\* pd.read_csv(file_path, encoding=enc): the table, rows labelled 0, 1, ...
ReadCsv(f, enc) ==
    IF ~f.exists
    THEN [error |-> "FileNotFoundError", df |-> EmptyDataFrame]
    ELSE IF enc = "utf-8" /\ f.encoding # "utf-8"
    THEN [error |-> "UnicodeDecodeError", df |-> EmptyDataFrame]
    ELSE [error |-> NoFault,
          df |-> [cols |-> f.cols,
                  rows |-> [i \in DOMAIN f.rows |-> ("idx" :> (i - 1)) @@ f.rows[i]]]]

\* df[col] = df[col].fillna(v)
FillNa(d, col, v) ==
    [cols |-> d.cols,
     rows |-> [i \in DOMAIN d.rows |->
                 IF d.rows[i][col] = NaN THEN (col :> v) @@ d.rows[i]
                 ELSE d.rows[i]]]

\* df[col] = pd.Series([v] * len(df))
SetColumn(d, col, v) ==
    [cols |-> d.cols \cup {col},
     rows |-> [i \in DOMAIN d.rows |-> (col :> v) @@ d.rows[i]]]

\* df[col] = df[from]
CopyColumn(d, col, from) ==
    [cols |-> d.cols \cup {col},
     rows |-> [i \in DOMAIN d.rows |-> (col :> d.rows[i][from]) @@ d.rows[i]]]

\* df.drop(columns=[col])
DropColumn(d, col) ==
    [cols |-> d.cols \ {col},
     rows |-> [i \in DOMAIN d.rows |->
                 [c \in (DOMAIN d.rows[i]) \ {col} |-> d.rows[i][c]]]]

\* df["Assay Name"] = df.get("Assay Name", pd.Series(["Unknown Assay"] * len(df)))
ResolveAssay(d) ==
    IF "Assay Name" \in d.cols THEN d
    ELSE SetColumn(d, "Assay Name", UnknownAssay)

\* The canonical Organism column preferred over Characteristics[Organism].
ResolveOrganismCanonicalFirst(d) ==
    IF "Organism" \in d.cols THEN d
    ELSE IF CharOrganism \in d.cols THEN CopyColumn(d, "Organism", CharOrganism)
    ELSE SetColumn(d, "Organism", UnknownOrganism)

ResolveOrganism(d) ==
    IF CharOrganism \in d.cols THEN CopyColumn(d, "Organism", CharOrganism)
    ELSE IF "Organism" \notin d.cols THEN SetColumn(d, "Organism", UnknownOrganism)
    ELSE d

DropAlternate(d) ==
    IF CharOrganism \in d.cols /\ CharOrganism # "Organism"
    THEN DropColumn(d, CharOrganism)
    ELSE d

Normalize(d) ==
    DropAlternate(
       FillNa(ResolveOrganism(ResolveAssay(FillNa(d, "Summary", NoSummary))),
              "Organism", UnknownOrganism))

\* A missing file raising instead of returning the empty table.
LoadOutcomeRaising(f) ==
    LET first == ReadCsv(f, "utf-8")
        read == IF first.error = "UnicodeDecodeError"
                THEN ReadCsv(f, "latin-1") ELSE first
    IN  IF read.error = "FileNotFoundError"
        THEN [fault |-> "FileNotFoundError", df |-> EmptyDataFrame]
        ELSE IF "Summary" \notin read.df.cols
        THEN [fault |-> "KeyError", df |-> EmptyDataFrame]
        ELSE [fault |-> NoFault, df |-> Normalize(read.df)]

\* What load_metadata returns (df) or raises (fault).
LoadOutcome(f) ==
    LET first == ReadCsv(f, "utf-8")
        read == IF first.error = "UnicodeDecodeError"
                THEN ReadCsv(f, "latin-1") ELSE first
    IN  IF read.error = "FileNotFoundError"
        THEN [fault |-> NoFault, df |-> EmptyDataFrame]
        ELSE IF "Summary" \notin read.df.cols
        THEN [fault |-> "KeyError", df |-> EmptyDataFrame]
        ELSE [fault |-> NoFault, df |-> Normalize(read.df)]


(***************************************************************************)
(* highlight_text(text, query)                                             *)
(***************************************************************************)
\* re.split(r'\s+', query.strip()), empty words dropped
RECURSIVE SplitWords(_, _, _)
SplitWords(s, cur, acc) ==
    IF s = <<>>
    THEN IF cur = <<>> THEN acc ELSE Append(acc, cur)
    ELSE IF Head(s) \in WhiteSpace
         THEN SplitWords(Tail(s), <<>>,
                         IF cur = <<>> THEN acc ELSE Append(acc, cur))
         ELSE SplitWords(Tail(s), Append(cur, Head(s)), acc)

IsWordAt(t, i) == i \in DOMAIN t /\ IsWord(t[i])

\* \b before the character at position i (i = Len(t) + 1: the end)
Boundary(t, i) == IsWordAt(t, i - 1) # IsWordAt(t, i)

\* the escaped word matched literally at i, case-insensitively
MatchAt(t, i, w) ==
    /\ i + Len(w) - 1 <= Len(t)
    /\ \A k \in DOMAIN w : Lower(t[i + k - 1]) = Lower(w[k])

\* \b(w1|w2|...)\b at position i: the alternatives that match there
Alternatives(t, i, words) ==
    {k \in DOMAIN words :
        /\ Boundary(t, i)
        /\ MatchAt(t, i, words[k])
        /\ Boundary(t, i + Len(words[k]))}

Marker == <<"*", "*">>

\* The scan going on one character after a match's start instead of after
\* the match.
RECURSIVE SubRescan(_, _, _)
SubRescan(t, words, i) ==
    IF i > Len(t) THEN <<>>
    ELSE LET alts == Alternatives(t, i, words) IN
         IF alts = {}
         THEN <<t[i]>> \o SubRescan(t, words, i + 1)
         ELSE LET k == CHOOSE a \in alts : \A b \in alts : a <= b
                  n == Len(words[k])
              IN  Marker \o SubSeq(t, i, i + n - 1) \o Marker
                     \o SubRescan(t, words, i + 1)

\* pattern.sub(replacer, text): left to right, the first alternative that
\* matches wins, the scan goes on after the match
RECURSIVE Sub(_, _, _)
Sub(t, words, i) ==
    IF i > Len(t) THEN <<>>
    ELSE LET alts == Alternatives(t, i, words) IN
         IF alts = {}
         THEN <<t[i]>> \o Sub(t, words, i + 1)
         ELSE LET k == CHOOSE a \in alts : \A b \in alts : a <= b
                  n == Len(words[k])
              IN  Marker \o SubSeq(t, i, i + n - 1) \o Marker
                     \o Sub(t, words, i + n)

HighlightText(t, q) ==
    IF q = <<>> THEN t
    ELSE LET words == SplitWords(q, <<>>, <<>>)
         IN  IF words = <<>> THEN t ELSE Sub(t, words, 1)


(***************************************************************************)
(* search_experiments(df, query, top_n, assay_filter, organism_filter,     *)
(* min_score)                                                              *)
(***************************************************************************)
Min(a, b) == IF a <= b THEN a ELSE b
Max(a, b) == IF a >= b THEN a ELSE b

\* "if assay_filter and assay_filter != 'All'"
IsSet(f) == f # None /\ f # <<>> /\ f # All

\* Series == value: a null cell equals nothing
CellEquals(cell, v) == cell # NaN /\ cell = v

\* filtered_df["Assay Name"] / filtered_df["Organism"] on a table without
\* that column raises KeyError
FilterRaises(d, af, of) ==
    \/ IsSet(af) /\ "Assay Name" \notin d.cols
    \/ IsSet(of) /\ "Organism" \notin d.cols

\* The organism predicate dropped from the conjunction.
FilterDfAssayOnly(d, af, of) ==
    LET Keep(r) == IsSet(af) => CellEquals(r["Assay Name"], af)
    IN  [cols |-> d.cols, rows |-> SelectSeq(d.rows, Keep)]

FilterDf(d, af, of) ==
    LET Keep(r) == /\ IsSet(af) => CellEquals(r["Assay Name"], af)
                   /\ IsSet(of) => CellEquals(r["Organism"], of)
    IN  [cols |-> d.cols, rows |-> SelectSeq(d.rows, Keep)]

Docs(fd) == [i \in DOMAIN fd.rows |-> fd.rows[i]["Summary"]]

\* any(docs): some document is a non-empty string
AnyDocs(docs) == \E i \in DOMAIN docs : docs[i] # <<>>

WithScore(r, sc) == ("Score" :> sc) @@ r

AssignScore(fd, sim) == [i \in DOMAIN fd.rows |-> WithScore(fd.rows[i], sim[i])]

\* The threshold not applied.
ScoreFilterOff(rows, ms) == rows

\* The threshold as a strict bound.
ScoreFilterStrict(rows, ms) ==
    LET Keep(r) == r["Score"] > ms
    IN  SelectSeq(rows, Keep)

ScoreFilter(rows, ms) ==
    LET Keep(r) == r["Score"] >= ms
    IN  SelectSeq(rows, Keep)

\* sort_values("Score", ascending=False): kind defaults to "quicksort",
\* which leaves the relative order of equal keys unspecified.
SortValues(rows) ==
    {[i \in DOMAIN rows |-> rows[p[i]]] : p \in
        {q \in Permutations(DOMAIN rows) :
            \A i, j \in DOMAIN rows :
                i < j => rows[q[i]]["Score"] >= rows[q[j]]["Score"]}}

\* DataFrame.head(n): the first n rows; all but the last |n| for n < 0
HeadN(rows, n) ==
    IF n >= 0 THEN SubSeq(rows, 1, Min(n, Len(rows)))
    ELSE SubSeq(rows, 1, Max(0, Len(rows) + n))

\* Without the copies: an unfiltered call writes the Score column into the
\* caller's table.
CorpusAfterInPlace(d, o) ==
    IF o.stage = "ranked" /\ Len(o.scored) = Len(d.rows)
    THEN [cols |-> d.cols \cup {"Score"}, rows |-> o.scored]
    ELSE d

\* filtered_df = df.copy() ... filtered_df = filtered_df.copy(): the masks,
\* the Score column and the sort act on copies; the caller's table is what
\* it was.
CorpusAfter(d, o) == d

Outcome(st, f, sc, res) == [stage |-> st, fault |-> f, scored |-> sc, results |-> res]

Ranked(fd, q, n, ms) ==
    LET sc == AssignScore(fd, CosineSimilarity(Docs(fd), q))
    IN  {Outcome("ranked", NoFault, sc,
                 [cols |-> fd.cols \cup {"Score"}, rows |-> HeadN(srt, n)]) :
            srt \in SortValues(ScoreFilter(sc, ms))}

SearchOutcomes(d, q, n, af, of, ms) ==
    IF FilterRaises(d, af, of)
    THEN {Outcome("filter", "KeyError", <<>>, EmptyDataFrame)}
    ELSE LET fd == FilterDf(d, af, of) IN
         IF IsEmpty(fd) \/ q = <<>>
         THEN {Outcome("empty", NoFault, <<>>, EmptyDataFrame)}
         ELSE IF "Summary" \notin fd.cols
         THEN {Outcome("docs", "KeyError", <<>>, EmptyDataFrame)}
         ELSE IF ~AnyDocs(Docs(fd))
         THEN {Outcome("nodocs", NoFault, <<>>, EmptyDataFrame)}
         ELSE IF EmptyVocabulary(Docs(fd), q)
         THEN {Outcome("valueerror", NoFault, <<>>, EmptyDataFrame)}
         ELSE Ranked(fd, q, n, ms)

(***************************************************************************)
(* Inputs of the search specification: the corpora load_metadata can       *)
(* return (no null Summary, no null Organism) and the call's arguments.    *)
(***************************************************************************)
A_RNA == <<"R","N","A">>
O_Mouse == <<"M","o","u","s","e">>
O_Plant == w_Plant

S_bone_density == w_bone \o Sp \o w_density
S_Bone == <<"B","o","n","e">>
Q_bone == w_bone
Q_plant == w_plant
Q_the == w_the
Q_bone_density == S_bone_density
Q_blank == Sp

w_mouse == <<"m","o","u","s","e">>
w_drop == <<"d","r","o","p">>
w_growth == <<"g","r","o","w","t","h">>
w_microgravity == <<"m","i","c","r","o","g","r","a","v","i","t","y">>
w_radiation == <<"r","a","d","i","a","t","i","o","n">>

\* "mouse bone density drop", "plant growth in microgravity",
\* "bone density after radiation"
D_mouse == w_mouse \o Sp \o w_bone \o Sp \o w_density \o Sp \o w_drop
D_plant == w_plant \o Sp \o w_growth \o Sp \o w_in \o Sp \o w_microgravity
D_radiation == w_bone \o Sp \o w_density \o Sp \o w_after \o Sp \o w_radiation

RowPool == {<<S_bone_density, A_RNA, O_Mouse>>,
            <<S_Bone, A_RNA, O_Mouse>>,
            <<S_Bone, A_RNA, O_Plant>>,
            <<S_Bone, NaN, O_Mouse>>,
            <<w_the, A_RNA, O_Mouse>>,
            <<<<>>, NaN, O_Plant>>}
Queries == {<<>>, Q_the, Q_bone, Q_plant, Q_bone_density, Q_blank}
AssayFilters == {None, All, A_RNA}
OrganismFilters == {None, All, O_Mouse}
MinScores == {0, 800}

LoadedCols == {"Summary", "Assay Name", "Organism"}

Row(i, summary, assay, organism) ==
    [idx |-> i, Summary |-> summary, Organism |-> organism] @@ ("Assay Name" :> assay)

RowSeqs(k) ==
    {[i \in 1..k |-> Row(i - 1, c[i][1], c[i][2], c[i][3])] :
        c \in [1..k -> RowPool]}

ScenarioCorpus ==
    [cols |-> LoadedCols,
     rows |-> <<Row(0, D_mouse, A_RNA, O_Mouse), Row(1, D_plant, A_RNA, O_Mouse),
                Row(2, D_radiation, A_RNA, O_Mouse)>>]

Corpora ==
    {EmptyDataFrame, ScenarioCorpus} \cup
    {[cols |-> LoadedCols, rows |-> rs] : rs \in UNION {RowSeqs(k) : k \in 0..MaxRows}}

ArgSet == [query : Queries, top_n : 0..MaxTopN, assay_filter : AssayFilters,
           organism_filter : OrganismFilters, min_score : MinScores]

NoArgs == [query |-> <<>>, top_n |-> 0, assay_filter |-> None,
           organism_filter |-> None, min_score |-> 0]
NoFile == [exists |-> FALSE, encoding |-> "utf-8", cols |-> {}, rows |-> <<>>]

Idle == /\ file = NoFile /\ warning = FALSE /\ shown = <<>>
        /\ text = <<>> /\ hquery = <<>> /\ highlighted = <<>>

Init == /\ df \in Corpora
        /\ args = NoArgs /\ stage = "init" /\ fault = NoFault
        /\ scored = <<>> /\ results = EmptyDataFrame
        /\ Idle

search_experiments ==
    /\ stage = "init"
    /\ \E a \in ArgSet :
       \E o \in SearchOutcomes(df, a.query, a.top_n, a.assay_filter,
                               a.organism_filter, a.min_score) :
          /\ args' = a
          /\ stage' = o.stage
          /\ fault' = o.fault
          /\ scored' = o.scored
          /\ results' = o.results
          /\ df' = CorpusAfter(df, o)
          /\ UNCHANGED <<file, warning, shown, text, hquery, highlighted>>

\* The script runs again from the top: query = "", the filters None, the
\* previous run's results gone; the loaded table is kept.
rerun ==
    /\ stage # "init"
    /\ args' = NoArgs /\ stage' = "init" /\ fault' = NoFault
    /\ scored' = <<>> /\ results' = EmptyDataFrame
    /\ warning' = FALSE /\ shown' = <<>>
    /\ text' = <<>> /\ hquery' = <<>> /\ highlighted' = <<>>
    /\ UNCHANGED <<df, file>>

Next == search_experiments \/ rerun

Spec == Init /\ [][Next]_vars

(***************************************************************************)
(* Claims about search_experiments, checked under Spec.                    *)
(***************************************************************************)
Returned == stage # "init" /\ fault = NoFault

\* The rows of df that the call's facet predicates let through, stated
\* from the call's arguments alone.
Passing ==
    {i \in DOMAIN df.rows :
        /\ args.assay_filter \in {None, All}
             \/ df.rows[i]["Assay Name"] = args.assay_filter
        /\ args.organism_filter \in {None, All}
             \/ df.rows[i]["Organism"] = args.organism_filter}

\* C1: every returned record carries the assay value and the organism value
\* the call filtered by (both when both are set), and a filter that is None
\* or All keeps no record out of the set that is scored: whenever scoring
\* happens, every record that satisfies the set filters is scored.
C1_FilterSound ==
    Returned =>
       /\ \A k \in DOMAIN results.rows :
             /\ args.assay_filter \notin {None, All}
                  => results.rows[k]["Assay Name"] = args.assay_filter
             /\ args.organism_filter \notin {None, All}
                  => results.rows[k]["Organism"] = args.organism_filter
       /\ stage = "ranked" =>
             \A i \in Passing : \E j \in DOMAIN scored : scored[j].idx = df.rows[i].idx

C1_Witness ==
    /\ stage = "ranked"
    /\ args.assay_filter = A_RNA /\ args.organism_filter = O_Mouse
    /\ Len(df.rows) = 2 /\ Len(scored) = 1 /\ Len(results.rows) = 1

\* C2: the result has at most min(top_n, number of records passing the
\* filters) rows, and every returned row has Score >= min_score.
C2_LimitAndThreshold ==
    Returned =>
       /\ Len(results.rows) <= Min(args.top_n, Cardinality(Passing))
       /\ \A k \in DOMAIN results.rows : results.rows[k]["Score"] >= args.min_score

C2_Witness ==
    /\ stage = "ranked" /\ args.min_score = 800 /\ args.top_n = 2
    /\ Len(scored) = 2 /\ Len(results.rows) = 1
    /\ \E j \in DOMAIN scored : scored[j]["Score"] \in 1..799

\* C3: the returned rows are in descending Score order, rows of equal Score
\* are in corpus order, and the top_n cut keeps, among the rows of equal
\* Score, the earliest of the corpus.
C3_StableOrder ==
    Returned =>
       /\ \A i, j \in DOMAIN results.rows :
             i < j =>
                \/ results.rows[i]["Score"] > results.rows[j]["Score"]
                \/ /\ results.rows[i]["Score"] = results.rows[j]["Score"]
                   /\ results.rows[i].idx < results.rows[j].idx
       /\ \A k \in DOMAIN results.rows : \A j \in DOMAIN scored :
             (/\ scored[j]["Score"] = results.rows[k]["Score"]
              /\ scored[j].idx < results.rows[k].idx)
                => \E m \in DOMAIN results.rows : results.rows[m].idx = scored[j].idx

\* C4: an empty query, or an empty corpus, gives an empty result and no
\* fault, whatever the corpus and the filters.
C4_EmptyQueryNoFault ==
    (stage # "init" /\ (args.query = <<>> \/ df.rows = <<>>))
       => fault = NoFault /\ results = EmptyDataFrame

\* C9: when at least one record passes the filters and neither the passing
\* summaries nor the query keep a term after tokenizing and stop-word
\* removal, the call returns the empty result and raises nothing.
C9_DegenerateVectorization ==
    (/\ stage # "init"
     /\ Passing # {}
     /\ Analyze(args.query) = <<>>
     /\ \A i \in Passing : Analyze(df.rows[i]["Summary"]) = <<>>)
       => fault = NoFault /\ results = EmptyDataFrame

C9_Witness ==
    /\ stage = "valueerror" /\ args.query = Q_the
    /\ \E i \in Passing : df.rows[i]["Summary"] = w_the

(***************************************************************************)
(* The highlighting specification: highlight_text on every text and query  *)
(* of the bounds.                                                          *)
(***************************************************************************)
TextAlphabet == {"a", "A", "+", " "}
QueryAlphabet == {"a", "+", " "}

SeqsUpTo(S, n) == UNION {[1..k -> S] : k \in 0..n}

HlTexts == SeqsUpTo(TextAlphabet, MaxTextLen)
HlQueries == SeqsUpTo(QueryAlphabet, MaxQueryLen)

InitHL == /\ df = EmptyDataFrame
          /\ args = NoArgs /\ stage = "init" /\ fault = NoFault
          /\ scored = <<>> /\ results = EmptyDataFrame
          /\ Idle

highlight_text ==
    /\ stage = "init"
    /\ \E t \in HlTexts : \E q \in HlQueries :
          /\ text' = t
          /\ hquery' = q
          /\ highlighted' = HighlightText(t, q)
    /\ stage' = "highlighted"
    /\ UNCHANGED <<file, df, fault, warning, args, scored, results, shown>>

NextHL == highlight_text \/ rerun

SpecHL == InitHL /\ [][NextHL]_vars

(***************************************************************************)
(* The loading specification: load_metadata, and render_home, on every     *)
(* source file of the bounds (a missing file, or a table with any of the   *)
(* four columns, its cells filled or empty, in either encoding).           *)
(***************************************************************************)
TopN == 10
HomeMinScore == 0

AllCols == {"Summary", "Assay Name", "Organism", CharOrganism}
Encodings == {"utf-8", "latin-1"}

RawRow(s, a, o, c) ==
    ("Summary" :> s) @@ ("Assay Name" :> a) @@ ("Organism" :> o) @@ (CharOrganism :> c)

RawRows == {RawRow(s, a, o, c) : s \in {S_Bone, NaN}, a \in {A_RNA, NaN},
                                 o \in {O_Mouse, NaN}, c \in {O_Plant, NaN}}

FileRowSeqs(cols) ==
    UNION {{[i \in 1..k |-> [c \in cols |-> r[i][c]]] : r \in [1..k -> RawRows]} :
              k \in 0..MaxFileRows}

Files ==
    {NoFile} \cup
    UNION {{[exists |-> TRUE, encoding |-> e, cols |-> cs, rows |-> rs] :
               e \in Encodings, rs \in FileRowSeqs(cs)} :
              cs \in (SUBSET AllCols) \ {{}}}

InitLoad == /\ file \in Files
            /\ df = EmptyDataFrame
            /\ args = NoArgs /\ stage = "init" /\ fault = NoFault
            /\ scored = <<>> /\ results = EmptyDataFrame
            /\ warning = FALSE /\ shown = <<>>
            /\ text = <<>> /\ hquery = <<>> /\ highlighted = <<>>

load_metadata ==
    /\ stage = "init"
    /\ LET lo == LoadOutcome(file) IN
          /\ fault' = lo.fault
          /\ stage' = IF lo.fault = NoFault THEN "loaded" ELSE "loadfault"
          /\ df' = IF lo.fault = NoFault THEN lo.df ELSE df
    /\ UNCHANGED <<file, warning, args, scored, results, shown,
                   text, hquery, highlighted>>

\* ["All"] + sorted(current_df[col].dropna().unique().tolist()), "All"
\* turned into None
Choices(d, col) ==
    {None} \cup ({d.rows[i][col] : i \in DOMAIN d.rows} \ {NaN})

render_home ==
    /\ stage = "init"
    /\ LET lo == LoadOutcome(file) IN
       IF lo.fault # NoFault
       THEN /\ fault' = lo.fault /\ stage' = "loadfault"
            /\ UNCHANGED <<df, warning, args, scored, results, shown>>
       ELSE \E af \in (IF IsEmpty(lo.df) THEN {None} ELSE Choices(lo.df, "Assay Name")),
               of \in (IF IsEmpty(lo.df) THEN {None} ELSE Choices(lo.df, "Organism")),
               q \in (IF IsEmpty(lo.df) THEN {<<>>} ELSE Queries) :
               /\ df' = lo.df
               /\ warning' = IsEmpty(lo.df)
               /\ args' = [query |-> q, top_n |-> TopN, assay_filter |-> af,
                           organism_filter |-> of, min_score |-> HomeMinScore]
               /\ IF q # <<>> /\ ~IsEmpty(lo.df)
                  THEN \E o \in SearchOutcomes(lo.df, q, TopN, af, of, HomeMinScore) :
                          /\ stage' = o.stage
                          /\ fault' = o.fault
                          /\ scored' = o.scored
                          /\ results' = o.results
                          /\ shown' = [k \in DOMAIN o.results.rows |->
                                         HighlightText(o.results.rows[k]["Summary"], q)]
                  ELSE /\ stage' = IF IsEmpty(lo.df) THEN "warned" ELSE "noquery"
                       /\ fault' = NoFault
                       /\ scored' = <<>>
                       /\ results' = EmptyDataFrame
                       /\ shown' = <<>>
    /\ UNCHANGED <<file, text, hquery, highlighted>>

NextLoad == load_metadata \/ render_home \/ rerun

SpecLoad == InitLoad /\ [][NextLoad]_vars

(***************************************************************************)
(* Claims about load_metadata and render_home, checked under SpecLoad.     *)
(***************************************************************************)
\* C5: load_metadata on a path with no file returns the empty table and
\* raises nothing; render_home then warns and does not call
\* search_experiments (no search stage is entered, nothing is scored or
\* returned).
C5_MissingFileIsEmpty ==
    (~file.exists /\ stage # "init") =>
       /\ fault = NoFault
       /\ df = EmptyDataFrame
       /\ stage \in {"loaded", "warned"}
       /\ stage = "warned" => warning
       /\ args.query = <<>> /\ scored = <<>> /\ results = EmptyDataFrame

C5_Witness ==
    ~file.exists /\ stage = "warned" /\ warning /\ df = EmptyDataFrame

\* C6: load_metadata on a readable table lacking Summary, Assay Name, or
\* both Organism columns does not fail, and every row of the table it
\* returns has the default value in each column that was absent.
C6_SchemaGapNeverFails ==
    (/\ stage \in {"loaded", "loadfault"}
     /\ file.exists
     /\ \/ "Summary" \notin file.cols
        \/ "Assay Name" \notin file.cols
        \/ ("Organism" \notin file.cols /\ CharOrganism \notin file.cols))
       => /\ fault = NoFault
          /\ Len(df.rows) = Len(file.rows)
          /\ \A i \in DOMAIN df.rows :
                /\ "Summary" \notin file.cols => df.rows[i]["Summary"] = NoSummary
                /\ "Assay Name" \notin file.cols
                      => df.rows[i]["Assay Name"] = UnknownAssay
                /\ ("Organism" \notin file.cols /\ CharOrganism \notin file.cols)
                      => df.rows[i]["Organism"] = UnknownOrganism

\* C7: no record of a non-empty table returned by load_metadata has a null
\* Summary, a null Assay Name or a null Organism.
C7_NoNullFields ==
    (stage = "loaded" /\ ~IsEmpty(df)) =>
       \A i \in DOMAIN df.rows :
          /\ df.rows[i]["Summary"] # NaN
          /\ df.rows[i]["Assay Name"] # NaN
          /\ df.rows[i]["Organism"] # NaN

RECURSIVE MarkedFrom(_, _, _, _)
MarkedFrom(out, j, pos, inside) ==
    IF j > Len(out) THEN {}
    ELSE IF out[j] = "*" THEN MarkedFrom(out, j + 2, pos, ~inside)
    ELSE (IF inside THEN {pos} ELSE {}) \cup MarkedFrom(out, j + 1, pos + 1, inside)

MarkedPositions == MarkedFrom(highlighted, 1, 1, FALSE)

\* C10: every whole-word (no word character on either side),
\* case-insensitive occurrence in the text of every whitespace-separated
\* term of the query lies inside emphasis markers.
C10_AllOccurrencesMarked ==
    stage = "highlighted" =>
       \A w \in Range(SplitWords(hquery, <<>>, <<>>)) :
          \A i \in DOMAIN text :
             (/\ MatchAt(text, i, w)
              /\ ~IsWordAt(text, i - 1)
              /\ ~IsWordAt(text, i + Len(w)))
                => \A k \in i..(i + Len(w) - 1) : k \in MarkedPositions

\* The output cut at its markers: segments 1, 3, 5, ... lie outside the
\* markers, segments 2, 4, ... between an opening and a closing one.
RECURSIVE Segments(_, _, _, _)
Segments(out, j, cur, acc) ==
    IF j > Len(out) THEN Append(acc, cur)
    ELSE IF out[j] = "*" /\ j < Len(out) /\ out[j + 1] = "*"
    THEN Segments(out, j + 2, <<>>, Append(acc, cur))
    ELSE Segments(out, j + 1, Append(cur, out[j]), acc)

RECURSIVE Concat(_)
Concat(segs) == IF segs = <<>> THEN <<>> ELSE Head(segs) \o Concat(Tail(segs))

OutputSegments == Segments(highlighted, 1, <<>>, <<>>)

\* C11: for an unmarked text, the output with its markers removed is the
\* text; the markers pair up, each pair encloses exactly one non-empty
\* occurrence of a query term and no marker (so the marked spans are
\* disjoint and none is nested); a query that is empty or only whitespace
\* returns the text unchanged.
C11_NonDestructive ==
    stage = "highlighted" =>
       /\ Concat(OutputSegments) = text
       /\ Len(OutputSegments) % 2 = 1
       /\ \A k \in DOMAIN OutputSegments :
             k % 2 = 0 =>
                /\ OutputSegments[k] # <<>>
                /\ "*" \notin Range(OutputSegments[k])
                /\ \E w \in Range(SplitWords(hquery, <<>>, <<>>)) :
                      Len(w) = Len(OutputSegments[k]) /\ MatchAt(OutputSegments[k], 1, w)
       /\ (\A c \in Range(hquery) : c \in WhiteSpace) => highlighted = text

C11_Witness ==
    /\ stage = "highlighted"
    /\ Len(OutputSegments) = 5
    /\ Len(SplitWords(hquery, <<>>, <<>>)) = 2
    /\ OutputSegments[2] # OutputSegments[4]

\* C12: within one call a scored document that contains every term of the
\* query scores at least as high as one that contains none of them; and on
\* the corpus "mouse bone density drop", "plant growth in microgravity",
\* "bone density after radiation" with query "bone density", no filters,
\* limit 2, documents 0 and 2 score strictly higher than document 1 and
\* the result is documents 2 and 0, in descending Score order.
C12_TermOverlap ==
    /\ stage = "ranked" =>
          LET qt == Range(Analyze(args.query))
              dt(i) == Range(Analyze(scored[i]["Summary"]))
          IN  \A i, j \in DOMAIN scored :
                 (qt \subseteq dt(i) /\ qt \cap dt(j) = {})
                    => scored[i]["Score"] >= scored[j]["Score"]
    /\ (/\ stage # "init"
        /\ df = ScenarioCorpus
        /\ args.query = Q_bone_density /\ args.top_n = 2 /\ args.min_score = 0
        /\ args.assay_filter \in {None, All} /\ args.organism_filter \in {None, All})
          => /\ stage = "ranked"
             /\ scored[1]["Score"] > scored[2]["Score"]
             /\ scored[3]["Score"] > scored[2]["Score"]
             /\ [k \in DOMAIN results.rows |-> results.rows[k].idx] = <<2, 0>>
             /\ results.rows[1]["Score"] > results.rows[2]["Score"]

C12_Witness ==
    /\ stage = "ranked" /\ df = ScenarioCorpus
    /\ args.query = Q_bone_density /\ args.top_n = 2 /\ args.min_score = 0
    /\ args.assay_filter = None /\ args.organism_filter = None
    /\ Len(results.rows) = 2 /\ scored[2]["Score"] = 0

NoSharedTerm ==
    /\ stage # "init"
    /\ LoadedCols \subseteq df.cols
    /\ args.query # <<>>
    /\ Passing # {}
    /\ \A i \in Passing :
          Range(Analyze(args.query)) \cap Range(Analyze(df.rows[i]["Summary"])) = {}

AllZero(rows) == \A k \in DOMAIN rows : rows[k]["Score"] = 0

\* C14 as stated: whenever the query is non-empty and shares no indexed
\* term with any filtered document, every document scores 0 and, with
\* min_score = 0, min(top_n, number of filtered records) zero-score records
\* are returned.
C14_ZeroScoreReturned ==
    (NoSharedTerm /\ args.min_score = 0)
       => /\ stage = "ranked"
          /\ AllZero(scored)
          /\ AllZero(results.rows)
          /\ Len(results.rows) = Min(args.top_n, Cardinality(Passing))

\* C14, amended: the same, provided some passing summary is a non-empty
\* string and the passing summaries and the query together keep at least
\* one term; then scoring happens, every score is 0, min_score = 0 returns
\* min(top_n, number of passing records) zero-score records (top_n >= 0)
\* and a strictly positive min_score returns none.
C14_ZeroScoreRanked ==
    (/\ NoSharedTerm
     /\ \E i \in Passing : df.rows[i]["Summary"] # <<>>
     /\ \/ Analyze(args.query) # <<>>
        \/ \E i \in Passing : Analyze(df.rows[i]["Summary"]) # <<>>)
       => /\ stage = "ranked"
          /\ Len(scored) = Cardinality(Passing)
          /\ AllZero(scored)
          /\ args.min_score = 0
               => /\ AllZero(results.rows)
                  /\ Len(results.rows) = Min(args.top_n, Cardinality(Passing))
          /\ args.min_score > 0 => results.rows = <<>>

C14_Witness ==
    /\ NoSharedTerm /\ stage = "ranked"
    /\ args.query = Q_blank /\ args.min_score = 0 /\ args.top_n = 2
    /\ Len(results.rows) = 2 /\ AllZero(results.rows)
    /\ \E i \in Passing : Analyze(df.rows[i]["Summary"]) # <<>>

====
